---------------------------- MODULE Spec2Model ----------------------------
(***************************************************************************)
(* A model of the interviewer crate (src/src/lib.rs): the quote            *)
(* preprocessor and separator tokenizer of the many_main! macro, the       *)
(* Askable conversions, the acquisition operations (ask, ask_opt,          *)
(* ask_until, ask_many, ask_many_until, ask_many_opt, ask_many_opt_lazy),  *)
(* set_consumable_quotes, and the two process-wide mutexes PARSE_QUOTES    *)
(* and EDITOR.                                                             *)
(*                                                                         *)
(* A string is a sequence of characters; a character is a one-character    *)
(* TLA+ string.  Rust indexes strings by UTF-8 byte offset, so every       *)
(* index of the scan below is a byte offset, and a character's width in    *)
(* bytes is len_utf8.                                                      *)
(***************************************************************************)
EXTENDS Naturals, Sequences, FiniteSets, TLC

-----------------------------------------------------------------------------
(* Bounds of the model.                                                    *)

\* Longest raw line the operator types in the tokenizer specification.
MaxLen == 4
\* Longest raw line the operator types in the policy and lock specifications.
MaxShort == 3
\* Lines one call may read before the operator stops answering its prompts.
MaxReads == 2
\* Threads of the process.
NumThreads == 2

-----------------------------------------------------------------------------
(* Characters and strings.                                                 *)

Quote == "\""
Space == " "
Tab == "\t"
Comma == ","
\* The character e with acute accent, whose UTF-8 encoding takes two bytes.
EAcute == "U+00E9"

\* char::is_whitespace, on the characters of the model's alphabets.
is_whitespace(c) == c \in {Space, Tab}

\* char::len_utf8.
len_utf8(c) == IF c = EAcute THEN 2 ELSE 1

\* The sentinel that stands for a quoted whitespace character.
WHITESPACE_REPR ==
  <<"T", "H", "I", "S", "_", "_", "_", "I", "S", "_", "_", "A", "_", "R", "E", "P", "R">>

\* str::len: the length in bytes.
RECURSIVE str_len(_)
str_len(s) == IF s = <<>> THEN 0 ELSE len_utf8(Head(s)) + str_len(Tail(s))

\* The byte offset of the k-th character (k in 1..Len(s)+1), as char_indices
\* yields it.
byte_index(s, k) == str_len(SubSeq(s, 1, k - 1))

\* Whether byte offset b is a character boundary of s (str::is_char_boundary).
is_char_boundary(s, b) == \E k \in 1..(Len(s) + 1) : byte_index(s, k) = b

\* The character position that starts at byte offset b, a character boundary.
char_at(s, b) == CHOOSE k \in 1..(Len(s) + 1) : byte_index(s, k) = b

\* Whether the slice s[a..b] is taken without a panic.
slice_ok(s, a, b) == a <= b /\ is_char_boundary(s, a) /\ is_char_boundary(s, b)

\* The slice s[a..b], a and b byte offsets.
slice(s, a, b) == SubSeq(s, char_at(s, a), char_at(s, b) - 1)

\* s[i..].starts_with(seq), i the byte offset of the k-th character.
starts_with(s, k, seq) ==
  /\ k + Len(seq) - 1 <= Len(s)
  /\ SubSeq(s, k, k + Len(seq) - 1) = seq

RECURSIVE trim_start(_)
trim_start(s) ==
  IF s = <<>> THEN s
  ELSE IF is_whitespace(Head(s)) THEN trim_start(Tail(s)) ELSE s

RECURSIVE trim_end(_)
trim_end(s) ==
  IF s = <<>> THEN s
  ELSE IF is_whitespace(s[Len(s)]) THEN trim_end(SubSeq(s, 1, Len(s) - 1)) ELSE s

trim(s) == trim_end(trim_start(s))

\* str::split(seq) for a non-empty seq: the pieces between successive
\* non-overlapping occurrences, found left to right; k scans, start is where
\* the current piece began.
RECURSIVE split_from(_, _, _, _)
split_from(s, seq, k, start) ==
  IF k + Len(seq) - 1 > Len(s) THEN << SubSeq(s, start, Len(s)) >>
  ELSE IF starts_with(s, k, seq)
       THEN << SubSeq(s, start, k - 1) >>
              \o split_from(s, seq, k + Len(seq), k + Len(seq))
       ELSE split_from(s, seq, k + 1, start)

split(s, seq) == split_from(s, seq, 1, 1)

\* str::split_whitespace: the maximal runs of non-whitespace characters; cur
\* is the run being read.
RECURSIVE split_ws_from(_, _)
split_ws_from(s, cur) ==
  IF s = <<>> THEN (IF cur = <<>> THEN <<>> ELSE << cur >>)
  ELSE IF is_whitespace(Head(s))
       THEN (IF cur = <<>> THEN <<>> ELSE << cur >>) \o split_ws_from(Tail(s), <<>>)
       ELSE split_ws_from(Tail(s), Append(cur, Head(s)))

\* A split at every single whitespace character, which leaves an empty piece
\* between two adjacent ones.
RECURSIVE split_each_whitespace(_)
split_each_whitespace(s) ==
  IF \A n \in 1..Len(s) : ~is_whitespace(s[n]) THEN << s >>
  ELSE LET k == CHOOSE n \in 1..Len(s) :
                  is_whitespace(s[n]) /\ \A m \in 1..(n - 1) : ~is_whitespace(s[m])
       IN << SubSeq(s, 1, k - 1) >> \o split_each_whitespace(SubSeq(s, k + 1, Len(s)))

split_whitespace(s) == split_ws_from(s, <<>>)

\* str::replace(from, to): every non-overlapping occurrence, left to right.
RECURSIVE replace(_, _, _)
replace(s, from, to) ==
  IF s = <<>> THEN s
  ELSE IF starts_with(s, 1, from)
       THEN to \o replace(SubSeq(s, Len(from) + 1, Len(s)), from, to)
       ELSE << Head(s) >> \o replace(Tail(s), from, to)

-----------------------------------------------------------------------------
(* The Separator enum.                                                     *)

Whitespace == [kind |-> "Whitespace", seq |-> <<>>]
Sequence(seq) == [kind |-> "Sequence", seq |-> seq]
SequenceTrim(seq) == [kind |-> "SequenceTrim", seq |-> seq]
SequenceTrimStart(seq) == [kind |-> "SequenceTrimStart", seq |-> seq]
SequenceTrimEnd(seq) == [kind |-> "SequenceTrimEnd", seq |-> seq]

-----------------------------------------------------------------------------
(* many_main!: the quote preprocessor and the separator tokenizer.         *)

\* The preprocessing loop over buffer.char_indices(): a double quote toggles
\* in_quote and is dropped, a whitespace character met while in_quote becomes
\* the sentinel, every other character is copied.
RECURSIVE quote_loop(_, _, _)
quote_loop(buffer, in_quote, tmp_buffer) ==
  IF buffer = <<>> THEN tmp_buffer
  ELSE LET c == Head(buffer)
           q == IF c = Quote THEN ~in_quote ELSE in_quote
       IN quote_loop(Tail(buffer), q,
            IF q /\ is_whitespace(c) THEN tmp_buffer \o WHITESPACE_REPR
            ELSE IF c # Quote THEN Append(tmp_buffer, c)
            ELSE tmp_buffer)

\* A preprocessor that leaves the line alone whatever the quote mode.
preprocess_ignores_flag(buffer, parse_quotes) == buffer

\* The string s that is tokenized: the acquired line, rewritten when
\* parse_quotes is set.
preprocess(buffer, parse_quotes) ==
  IF parse_quotes THEN trim(quote_loop(buffer, FALSE, <<>>)) ELSE buffer

\* A skip that consumes nothing.
iterator_skip_none(it, len) == it

\* iterator_skip(&mut it, len): the position of the iterator afterwards;
\* nth(n) consumes n + 1 items.
iterator_skip(it, len) ==
  IF len < 2 THEN it
  ELSE IF len = 2 THEN it + 1
  ELSE it + (len - 2) + 1

\* The trim each of the three scanning variants applies to a segment.
trim_by(kind, seg) ==
  CASE kind = "SequenceTrim" -> trim(seg)
    [] kind = "SequenceTrimStart" -> trim_start(seg)
    [] kind = "SequenceTrimEnd" -> trim_end(seg)

\* The split point after a match at byte offset i.
next_start(i, seq) == i + str_len(seq)

\* The scan of SequenceTrim, SequenceTrimStart and SequenceTrimEnd: it is the
\* position of the character it.next() yields next, start_index a byte
\* offset.  The result records every (start_index, i) pair a slice was taken
\* with and whether a slice panicked.
RECURSIVE scan(_, _, _, _, _, _, _)
scan(s, seq, kind, it, start_index, strings, cuts) ==
  IF it > Len(s)
  THEN IF slice_ok(s, start_index, str_len(s))
       THEN [strings |-> Append(strings, trim_by(kind, slice(s, start_index, str_len(s)))),
             cuts |-> Append(cuts, << start_index, str_len(s) >>),
             panic |-> FALSE]
       ELSE [strings |-> strings,
             cuts |-> Append(cuts, << start_index, str_len(s) >>),
             panic |-> TRUE]
  ELSE LET i == byte_index(s, it)
       IN IF starts_with(s, it, seq)
          THEN IF slice_ok(s, start_index, i)
               THEN scan(s, seq, kind, iterator_skip(it + 1, str_len(seq)),
                         next_start(i, seq),
                         Append(strings, trim_by(kind, slice(s, start_index, i))),
                         Append(cuts, << start_index, i >>))
               ELSE [strings |-> strings,
                     cuts |-> Append(cuts, << start_index, i >>),
                     panic |-> TRUE]
          ELSE scan(s, seq, kind, it + 1, start_index, strings, cuts)

\* The match on the separator: the tokens before the trailing empty one is
\* dropped.
raw_tokens(s, sep) ==
  CASE sep.kind = "Whitespace" ->
         [strings |-> split_whitespace(s), cuts |-> <<>>, panic |-> FALSE]
    [] sep.kind = "Sequence" ->
         [strings |-> split(s, sep.seq), cuts |-> <<>>, panic |-> FALSE]
    [] OTHER -> scan(s, sep.seq, sep.kind, 1, 0, <<>>, <<>>)

\* A post-processing that keeps the trailing empty token.
pop_never(strings) == strings

\* if s.last() == Some(&"") { s.pop(); }
pop_empty(strings) ==
  IF strings # <<>> /\ strings[Len(strings)] = <<>>
  THEN SubSeq(strings, 1, Len(strings) - 1)
  ELSE strings

\* A mapping that leaves the sentinel in the tokens.
restore_never(strings) == strings

\* s.iter().map(|item| item.replace(WHITESPACE_REPR, " "))
restore(strings) == [n \in 1..Len(strings) |-> replace(strings[n], WHITESPACE_REPR, << Space >>)]

\* The end of many_main!: the trailing empty token is dropped and the
\* sentinel restored in what r, the match on the separator, produced.
finish_tokens(r) ==
  [tokens |-> restore(pop_empty(r.strings)), cuts |-> r.cuts, panic |-> r.panic]

\* The tokens many_main! binds for the acquired line buffer, the snapshot
\* parse_quotes and the separator sep.
many_main(buffer, parse_quotes, sep) ==
  finish_tokens(raw_tokens(preprocess(buffer, parse_quotes), sep))

-----------------------------------------------------------------------------
(* The Askable conversions.                                                *)

Ok(val) == [ok |-> TRUE, val |-> val]
ParseError(origin, target) == [ok |-> FALSE, origin |-> origin, target |-> target]

\* char::to_lowercase on the letters of the words bool accepts.
lower_char(c) ==
  CASE c = "Y" -> "y" [] c = "E" -> "e" [] c = "S" -> "s" [] c = "T" -> "t"
    [] c = "R" -> "r" [] c = "U" -> "u" [] c = "N" -> "n" [] c = "O" -> "o"
    [] c = "F" -> "f" [] c = "A" -> "a" [] c = "L" -> "l" [] OTHER -> c

to_lowercase(s) == [n \in 1..Len(s) |-> lower_char(s[n])]

TrueWords ==
  { <<"y">>, <<"y", "e", "s">>, <<"t">>, <<"t", "r", "u", "e">>, <<"1">> }
FalseWords ==
  { <<"n">>, <<"n", "o">>, <<"f">>, <<"f", "a", "l", "s", "e">>, <<"0">> }

\* impl Askable for String
convert_String(s) == Ok(s)

\* impl Askable for bool
convert_bool(s) ==
  LET lower == trim(to_lowercase(s))
  IN IF lower \in TrueWords THEN Ok(TRUE)
     ELSE IF lower \in FalseWords THEN Ok(FALSE)
     ELSE ParseError(s, "bool")

Digits == <<"0", "1", "2", "3", "4", "5", "6", "7", "8", "9">>
is_digit(c) == \E d \in 1..10 : Digits[d] = c
digit_value(c) == (CHOOSE d \in 1..10 : Digits[d] = c) - 1

\* The largest u8.
U8_MAX == 255

\* str::parse::<u8>: an optional plus sign, then one or more decimal digits,
\* the value at most U8_MAX; acc is the value read so far, -1 standing for
\* a failed parse.
RECURSIVE parse_digits(_, _)
parse_digits(s, acc) ==
  IF s = <<>> THEN Ok(acc)
  ELSE IF ~is_digit(Head(s)) THEN [ok |-> FALSE]
  ELSE LET n == acc * 10 + digit_value(Head(s))
       IN IF n > U8_MAX THEN [ok |-> FALSE] ELSE parse_digits(Tail(s), n)

parse_u8(s) ==
  LET digits == IF s # <<>> /\ Head(s) = "+" THEN Tail(s) ELSE s
  IN IF digits = <<>> THEN [ok |-> FALSE] ELSE parse_digits(digits, 0)

\* impl_askable!(u8)
convert_u8(s) ==
  LET r == parse_u8(trim(s))
  IN IF r.ok THEN Ok(r.val) ELSE ParseError(s, "u8")

\* Askable::convert for the target type T.
convert(T, s) ==
  CASE T = "String" -> convert_String(s)
    [] T = "bool" -> convert_bool(s)
    [] T = "u8" -> convert_u8(s)


-----------------------------------------------------------------------------
(* The acquisition policies: what a call does with the line it acquired.   *)

MultiOps == {"ask_many", "ask_many_until", "ask_many_opt", "ask_many_opt_lazy"}
SingleOps == {"ask", "ask_opt", "ask_until"}
RetryOps == {"ask_opt", "ask_until", "ask_many_until", "ask_many_opt"}

\* A vector that is created once, outside 'outer, and never cleared.
keep_v(old) == old

\* let mut v = Vec::with_capacity(s.len()): the vector a conversion loop
\* starts from, whatever an earlier iteration of 'outer left in v.
fresh_v(old) == <<>>

\* A loop that skips the tokens that fail and pushes the others.
convert_loop_skips(T, s, k, v) ==
  LET good(x) == convert(T, x).ok
      kept == SelectSeq(SubSeq(s, k, Len(s)), good)
  IN [ok |-> TRUE, v |-> v \o [n \in 1..Len(kept) |-> convert(T, kept[n]).val]]

\* The loop for x in s { ... convert(x) ... v.push(val) } of ask_many,
\* ask_many_until and ask_many_opt: it stops at the first token that fails,
\* with the error of that token and v as pushed so far.
RECURSIVE convert_loop(_, _, _, _)
convert_loop(T, s, k, v) ==
  IF k > Len(s) THEN [ok |-> TRUE, v |-> v]
  ELSE LET c == convert(T, s[k])
       IN IF c.ok THEN convert_loop(T, s, k + 1, Append(v, c.val))
          ELSE [ok |-> FALSE, v |-> v, err |-> c]

\* A loop that stops at the first token that fails.
lazy_loop_stops(T, s) ==
  LET l == convert_loop(T, s, 1, <<>>)
  IN [n \in 1..Len(l.v) |-> [tag |-> "Some", val |-> l.v[n]]]

\* The loop of ask_many_opt_lazy: Some(x) or None for every token.
lazy_loop(T, s) ==
  [n \in 1..Len(s) |->
     LET c == convert(T, s[n])
     IN IF c.ok THEN [tag |-> "Some", val |-> c.val] ELSE [tag |-> "None"]]

NoRet == [tag |-> "NoRet"]

\* Where control goes once the line is tokenized and converted, with the
\* value returned (if the call returns) and the contents of v.
Returns(r, v) == [pc |-> "returned", ret |-> r, v |-> v]
Again(where, v) == [pc |-> where, ret |-> NoRet, v |-> v]

\* pub fn ask
body_ask(T, input) ==
  LET c == convert(T, input)
  IN Returns(IF c.ok THEN [tag |-> "Ok", val |-> c.val]
             ELSE [tag |-> "Err", origin |-> c.origin, target |-> c.target], <<>>)

\* An ask_opt that tries the conversion before it looks at the line.
body_ask_opt_converts_first(T, input) ==
  LET c == convert(T, input)
  IN IF c.ok THEN Returns([tag |-> "Some", val |-> c.val], <<>>)
     ELSE IF input = <<>> THEN Returns([tag |-> "None"], <<>>)
     ELSE Again("lock_editor", <<>>)

\* pub fn ask_opt: one iteration of its loop.
body_ask_opt(T, input) ==
  IF input = <<>> THEN Returns([tag |-> "None"], <<>>)
  ELSE LET c == convert(T, input)
       IN IF c.ok THEN Returns([tag |-> "Some", val |-> c.val], <<>>)
          ELSE Again("lock_editor", <<>>)

\* An ask_until that gives up at the first failure.
body_ask_until_once(T, input) ==
  LET c == convert(T, input)
  IN Returns(IF c.ok THEN [tag |-> "Value", val |-> c.val]
             ELSE [tag |-> "Err", origin |-> c.origin, target |-> c.target], <<>>)

\* pub fn ask_until: one iteration of its loop.
body_ask_until(T, input) ==
  LET c == convert(T, input)
  IN IF c.ok THEN Returns([tag |-> "Value", val |-> c.val], <<>>)
     ELSE Again("lock_editor", <<>>)

\* pub fn ask_many
body_ask_many(T, s, old_v) ==
  LET l == convert_loop(T, s, 1, fresh_v(old_v))
  IN IF l.ok THEN Returns([tag |-> "Ok", val |-> l.v], l.v)
     ELSE Returns([tag |-> "Err", origin |-> l.err.origin, target |-> l.err.target], l.v)

\* An ask_many_until that asks again when the line has no token.
body_ask_many_until_wants_tokens(T, s, old_v) ==
  LET l == convert_loop(T, s, 1, fresh_v(old_v))
  IN IF l.ok /\ Len(s) > 0 THEN Returns([tag |-> "Value", val |-> l.v], l.v)
     ELSE Again("lock_quotes", l.v)

\* pub fn ask_many_until: one iteration of 'outer.
body_ask_many_until(T, s, old_v) ==
  LET l == convert_loop(T, s, 1, fresh_v(old_v))
  IN IF l.ok THEN Returns([tag |-> "Value", val |-> l.v], l.v)
     ELSE Again("lock_quotes", l.v)

\* An ask_many_opt without the test of s.len().
body_ask_many_opt_no_test(T, s, old_v) ==
  LET l == convert_loop(T, s, 1, fresh_v(old_v))
  IN IF l.ok THEN Returns([tag |-> "Some", val |-> l.v], l.v)
     ELSE Again("lock_quotes", l.v)

\* pub fn ask_many_opt: one iteration of 'outer.
body_ask_many_opt(T, s, old_v) ==
  IF Len(s) = 0 THEN Returns([tag |-> "None"], old_v)
  ELSE LET l == convert_loop(T, s, 1, fresh_v(old_v))
       IN IF l.ok THEN Returns([tag |-> "Some", val |-> l.v], l.v)
          ELSE Again("lock_quotes", l.v)

\* pub fn ask_many_opt_lazy
body_ask_many_opt_lazy(T, s) ==
  LET l == lazy_loop(T, s) IN Returns([tag |-> "Value", val |-> l], l)

\* The body of operation o after get_str returned input; s are the tokens
\* of many_main!.
body(o, T, input, s, old_v) ==
  CASE o = "ask" -> body_ask(T, input)
    [] o = "ask_opt" -> body_ask_opt(T, input)
    [] o = "ask_until" -> body_ask_until(T, input)
    [] o = "ask_many" -> body_ask_many(T, s, old_v)
    [] o = "ask_many_until" -> body_ask_many_until(T, s, old_v)
    [] o = "ask_many_opt" -> body_ask_many_opt(T, s, old_v)
    [] o = "ask_many_opt_lazy" -> body_ask_many_opt_lazy(T, s)

-----------------------------------------------------------------------------
(* The state of the process.                                               *)

VARIABLES
  PARSE_QUOTES,   \* the value in the PARSE_QUOTES mutex
  quotes_lock,    \* the thread that holds the PARSE_QUOTES mutex, or NoThread
  EDITOR,         \* "Some" when rustyline::Editor::new() succeeded, else "None"
  editor_lock,    \* the thread that holds the EDITOR mutex, or NoThread
  poisoned,       \* whether a thread panicked while it held the EDITOR mutex
  exit_code,      \* "running", or the code ("0", "1") std::process::exit was called with
  pc,             \* where each thread is
  op,             \* the operation each thread is in
  arg,            \* the argument b of set_consumable_quotes
  target,         \* the type T of the call
  sep,            \* the separator of the call
  parse_quotes,   \* the local parse_quotes of many_main!
  buffer,         \* what get_str returned last
  v,              \* the local vector v
  ret,            \* what the call returned
  nreads,         \* lines the call has read so far
  first_quotes,   \* PARSE_QUOTES as it was at the first lock of the call
  line_quotes,    \* PARSE_QUOTES as it was at the latest lock of the call
  stop_at         \* the number of the first line read that lets the call return, or 0

vars ==
  << PARSE_QUOTES, quotes_lock, EDITOR, editor_lock, poisoned, exit_code, pc, op,
     arg, target, sep, parse_quotes, buffer, v, ret, nreads, first_quotes,
     line_quotes, stop_at >>

Threads == 1..NumThreads
NoThread == 0
NoSep == [kind |-> "None", seq |-> <<>>]

\* A lock that does not wait.
can_lock_always(holder) == TRUE

\* Mutex::lock returns once no thread holds the mutex.
can_lock(holder) == holder = NoThread

\* Whether the call o returns on the line input, tokenized as s: the line
\* that ends a retry loop.
lets_return(o, T, input, s) ==
  CASE o \in {"ask", "ask_many", "ask_many_opt_lazy"} -> TRUE
    [] o = "ask_opt" -> input = <<>> \/ convert(T, input).ok
    [] o = "ask_until" -> convert(T, input).ok
    [] o = "ask_many_until" -> \A n \in 1..Len(s) : convert(T, s[n]).ok
    [] o = "ask_many_opt" -> Len(s) = 0 \/ \A n \in 1..Len(s) : convert(T, s[n]).ok

Init ==
  /\ PARSE_QUOTES = FALSE
  /\ quotes_lock = NoThread
  /\ EDITOR \in {"Some", "None"}
  /\ editor_lock = NoThread
  /\ poisoned = FALSE
  /\ exit_code = "running"
  /\ pc = [t \in Threads |-> "idle"]
  /\ op = [t \in Threads |-> "none"]
  /\ arg = [t \in Threads |-> FALSE]
  /\ target = [t \in Threads |-> "none"]
  /\ sep = [t \in Threads |-> NoSep]
  /\ parse_quotes = [t \in Threads |-> FALSE]
  /\ buffer = [t \in Threads |-> <<>>]
  /\ v = [t \in Threads |-> <<>>]
  /\ ret = [t \in Threads |-> NoRet]
  /\ nreads = [t \in Threads |-> 0]
  /\ first_quotes = [t \in Threads |-> FALSE]
  /\ line_quotes = [t \in Threads |-> FALSE]
  /\ stop_at = [t \in Threads |-> 0]

\* What a step of one thread leaves alone.
locks == << quotes_lock, editor_lock, poisoned >>
call == << op, arg, target, sep >>
ghosts == << first_quotes, line_quotes, stop_at >>

-----------------------------------------------------------------------------
(* The steps of a thread.                                                  *)

\* A thread calls set_consumable_quotes(b).
call_set_consumable_quotes(t) ==
  /\ exit_code = "running"
  /\ pc[t] = "idle"
  /\ \E b \in BOOLEAN : arg' = [arg EXCEPT ![t] = b]
  /\ pc' = [pc EXCEPT ![t] = "lock_quotes"]
  /\ op' = [op EXCEPT ![t] = "set_consumable_quotes"]
  /\ UNCHANGED << PARSE_QUOTES, EDITOR, exit_code, locks, target, sep, parse_quotes,
                  buffer, v, ret, nreads, ghosts >>

\* A thread calls an acquisition operation o::<T>(prompt_str, sp), o among
\* ops, T among types and sp among seps; the single-value operations take no
\* separator and start in get_str.
call_ask(t, ops, types, seps) ==
  /\ exit_code = "running"
  /\ pc[t] = "idle"
  /\ \E o \in ops, T \in types :
       \E sp \in (IF o \in MultiOps THEN seps ELSE {NoSep}) :
         /\ pc' = [pc EXCEPT ![t] = IF o \in MultiOps THEN "lock_quotes" ELSE "lock_editor"]
         /\ op' = [op EXCEPT ![t] = o]
         /\ target' = [target EXCEPT ![t] = T]
         /\ sep' = [sep EXCEPT ![t] = sp]
  /\ UNCHANGED << PARSE_QUOTES, EDITOR, exit_code, locks, arg, parse_quotes, buffer,
                  v, ret, nreads, ghosts >>

\* Arc::clone(&PARSE_QUOTES).lock().unwrap()
lock_quotes(t) ==
  /\ exit_code = "running"
  /\ pc[t] = "lock_quotes"
  /\ can_lock(quotes_lock)
  /\ quotes_lock' = t
  /\ pc' = [pc EXCEPT ![t] = "quotes_locked"]
  /\ UNCHANGED << PARSE_QUOTES, EDITOR, editor_lock, poisoned, exit_code, call,
                  parse_quotes, buffer, v, ret, nreads, ghosts >>

\* set_consumable_quotes: the store through the guard, which is then dropped.
store_quotes(t) ==
  /\ exit_code = "running"
  /\ pc[t] = "quotes_locked"
  /\ op[t] = "set_consumable_quotes"
  /\ PARSE_QUOTES' = arg[t]
  /\ quotes_lock' = NoThread
  /\ pc' = [pc EXCEPT ![t] = "returned"]
  /\ ret' = [ret EXCEPT ![t] = [tag |-> "Unit"]]
  /\ UNCHANGED << EDITOR, editor_lock, poisoned, exit_code, call, parse_quotes,
                  buffer, v, nreads, ghosts >>

\* A flag that is read at the first line of a call only.
load_once(t) == IF nreads[t] = 0 THEN PARSE_QUOTES ELSE parse_quotes[t]

\* The value let parse_quotes = *guard copies in thread t.
load_quotes(t) == PARSE_QUOTES

\* A guard that lives as long as the call.
guard_kept(t) == t

\* The holder of the PARSE_QUOTES mutex after let parse_quotes = *...lock()
\* .unwrap(): the guard is a temporary of the statement and is dropped at its
\* end.
guard_dropped(t) == NoThread

\* many_main!: the copy of the flag into parse_quotes; the guard is dropped
\* at the end of the statement.
snapshot_quotes(t) ==
  /\ exit_code = "running"
  /\ pc[t] = "quotes_locked"
  /\ op[t] \in MultiOps
  /\ parse_quotes' = [parse_quotes EXCEPT ![t] = load_quotes(t)]
  /\ quotes_lock' = guard_dropped(t)
  /\ pc' = [pc EXCEPT ![t] = "lock_editor"]
  /\ first_quotes' = [first_quotes EXCEPT ![t] = IF nreads[t] = 0 THEN PARSE_QUOTES ELSE @]
  /\ line_quotes' = [line_quotes EXCEPT ![t] = PARSE_QUOTES]
  /\ UNCHANGED << PARSE_QUOTES, EDITOR, editor_lock, poisoned, exit_code, call,
                  buffer, v, ret, nreads, stop_at >>

\* get_str: editor.lock().unwrap(); the unwrap panics when the mutex is
\* poisoned.
lock_editor(t) ==
  /\ exit_code = "running"
  /\ pc[t] = "lock_editor"
  /\ can_lock(editor_lock)
  /\ IF poisoned
     THEN /\ pc' = [pc EXCEPT ![t] = "panicked"]
          /\ UNCHANGED editor_lock
     ELSE /\ pc' = [pc EXCEPT ![t] = "readline"]
          /\ editor_lock' = t
  /\ UNCHANGED << PARSE_QUOTES, quotes_lock, EDITOR, poisoned, exit_code, call,
                  parse_quotes, buffer, v, ret, nreads, ghosts >>

\* The line get_str returns for what the operator typed.
received(line) == trim(line)

\* The number of the first line that lets the call of thread t return, once
\* it has read input as well.
first_stop(t, input) ==
  IF stop_at[t] = 0
       /\ lets_return(op[t], target[t], input,
                      IF op[t] \in MultiOps
                      THEN many_main(input, parse_quotes[t], sep[t]).tokens ELSE <<>>)
  THEN nreads[t] + 1
  ELSE stop_at[t]

\* get_str: the operator enters one of lines; it is trimmed (and, on the
\* editor path, added to the history), the guard is dropped and the line
\* returned.
read_line(t, lines) ==
  /\ exit_code = "running"
  /\ pc[t] = "readline"
  /\ nreads[t] < MaxReads
  /\ \E input \in { received(line) : line \in lines } :
        /\ buffer' = [buffer EXCEPT ![t] = input]
        /\ stop_at' = [stop_at EXCEPT ![t] = first_stop(t, input)]
  /\ nreads' = [nreads EXCEPT ![t] = @ + 1]
  /\ editor_lock' = NoThread
  /\ pc' = [pc EXCEPT ![t] = "have_line"]
  /\ UNCHANGED << PARSE_QUOTES, quotes_lock, EDITOR, poisoned, exit_code, call,
                  parse_quotes, v, ret, first_quotes, line_quotes >>

\* get_str on the editor path: Err(ReadlineError::Interrupted) exits with
\* code 0, any other error with code 1.
read_fails(t) ==
  /\ exit_code = "running"
  /\ pc[t] = "readline"
  /\ EDITOR = "Some"
  /\ \E code \in {"0", "1"} : exit_code' = code
  /\ UNCHANGED << PARSE_QUOTES, EDITOR, locks, pc, call, parse_quotes, buffer, v,
                  ret, nreads, ghosts >>

\* get_str on the stdin path: a failed flush or read_line panics in expect;
\* the guard is dropped by the unwinding, which poisons the mutex.
read_panics(t) ==
  /\ exit_code = "running"
  /\ pc[t] = "readline"
  /\ EDITOR = "None"
  /\ pc' = [pc EXCEPT ![t] = "panicked"]
  /\ editor_lock' = NoThread
  /\ poisoned' = TRUE
  /\ UNCHANGED << PARSE_QUOTES, quotes_lock, EDITOR, exit_code, call, parse_quotes,
                  buffer, v, ret, nreads, ghosts >>

\* The tokenizer of many_main! on the line thread t acquired (a single-value
\* operation has none).
tokens_of(t) ==
  IF op[t] \in MultiOps
  THEN many_main(buffer[t], parse_quotes[t], sep[t])
  ELSE [tokens |-> <<>>, cuts |-> <<>>, panic |-> FALSE]

\* The body of the operation once the tokens are there: a panic of the
\* tokenizer ends the thread.
after_tokens(t, mm) ==
  IF mm.panic THEN [pc |-> "panicked", ret |-> NoRet, v |-> v[t]]
  ELSE body(op[t], target[t], buffer[t], mm.tokens, v[t])

\* The rest of the call after get_str returned: the tokenizer (a multi-value
\* operation) and the body of the operation, which returns or goes round its
\* loop; the line goes out of scope when the loop continues.
convert_line(t) ==
  /\ exit_code = "running"
  /\ pc[t] = "have_line"
  /\ \E b \in {after_tokens(t, tokens_of(t))} :
        /\ pc' = [pc EXCEPT ![t] = b.pc]
        /\ ret' = [ret EXCEPT ![t] = b.ret]
        /\ v' = [v EXCEPT ![t] = b.v]
        /\ buffer' = [buffer EXCEPT ![t] = IF b.pc = "returned" THEN @ ELSE <<>>]
  /\ UNCHANGED << PARSE_QUOTES, EDITOR, exit_code, locks, call, parse_quotes,
                  nreads, ghosts >>

\* The caller takes the value; the locals of the call are gone.
return(t) ==
  /\ exit_code = "running"
  /\ pc[t] = "returned"
  /\ pc' = [pc EXCEPT ![t] = "idle"]
  /\ op' = [op EXCEPT ![t] = "none"]
  /\ arg' = [arg EXCEPT ![t] = FALSE]
  /\ target' = [target EXCEPT ![t] = "none"]
  /\ sep' = [sep EXCEPT ![t] = NoSep]
  /\ parse_quotes' = [parse_quotes EXCEPT ![t] = FALSE]
  /\ buffer' = [buffer EXCEPT ![t] = <<>>]
  /\ v' = [v EXCEPT ![t] = <<>>]
  /\ ret' = [ret EXCEPT ![t] = NoRet]
  /\ nreads' = [nreads EXCEPT ![t] = 0]
  /\ first_quotes' = [first_quotes EXCEPT ![t] = FALSE]
  /\ line_quotes' = [line_quotes EXCEPT ![t] = FALSE]
  /\ stop_at' = [stop_at EXCEPT ![t] = 0]
  /\ UNCHANGED << PARSE_QUOTES, EDITOR, exit_code, locks >>


-----------------------------------------------------------------------------
(* What the callers pass and what the operator types.                      *)

\* The strings over alphabet of at most n characters.
StringsUpTo(alphabet, n) == UNION { [1..k -> alphabet] : k \in 0..n }

\* The line of the examples of set_consumable_quotes: test, "test test"
DocLine ==
  << "t", "e", "s", "t", ",", " ", "\"", "t", "e", "s", "t", " ", "t", "e", "s", "t", "\"" >>
\* The line of examples/escaping.rs: a "b c d" e f
EscapingLine ==
  << "a", " ", "\"", "b", " ", "c", " ", "d", "\"", " ", "e", " ", "f" >>
\* A quoted tab, and the line a, b ,c of the tokenizer's tests.
TabLine == << "\"", "a", "\t", "a", "\"" >>
TrimLine == << "a", ",", " ", "b", " ", ",", "c" >>
\* A line in which the operator typed the text of the sentinel itself.
SentinelLine == << "a" >> \o WHITESPACE_REPR

TokAlphabet == {"a", Comma, Space, Quote, EAcute}
TokLines ==
  StringsUpTo(TokAlphabet, MaxLen)
    \cup {DocLine, EscapingLine, TabLine, TrimLine, SentinelLine}
TokSeqs ==
  { <<Comma>>, <<Comma, Comma>>, <<Comma, Comma, Comma>>, <<EAcute>>, <<Space>> }
TokSeps ==
  {Whitespace}
    \cup { Sequence(q) : q \in TokSeqs } \cup { SequenceTrim(q) : q \in TokSeqs }
    \cup { SequenceTrimStart(q) : q \in TokSeqs }
    \cup { SequenceTrimEnd(q) : q \in TokSeqs }

\* The thread whose calls the tokenizer and policy specifications follow.
Main == 1

-----------------------------------------------------------------------------
(* The tokenizer: one thread that sets the quote mode and calls            *)
(* ask_many::<String> with every separator on every line, the editor       *)
(* there.                                                                  *)

TokInit == Init /\ EDITOR = "Some"

TokNext ==
  \/ call_set_consumable_quotes(Main)
  \/ call_ask(Main, {"ask_many"}, {"String"}, TokSeps)
  \/ lock_quotes(Main)
  \/ store_quotes(Main)
  \/ snapshot_quotes(Main)
  \/ lock_editor(Main)
  \/ read_line(Main, TokLines)
  \/ read_fails(Main)
  \/ convert_line(Main)
  \/ return(Main)

SpecTok == TokInit /\ [][TokNext]_vars

-----------------------------------------------------------------------------
(* The acquisition policies: one thread that calls every operation, for    *)
(* every target type, on short lines.                                      *)

Types == {"String", "bool", "u8"}
\* "1" converts to every type; "x" and "z" convert to String only.
PolicyAlphabet == {"1", "x", "z", Space}
PolicyLines == StringsUpTo(PolicyAlphabet, MaxShort)
PolicySeps == {Whitespace, SequenceTrim(<<Space>>)}

Next ==
  \/ call_set_consumable_quotes(Main)
  \/ call_ask(Main, SingleOps \cup MultiOps, Types, PolicySeps)
  \/ lock_quotes(Main)
  \/ store_quotes(Main)
  \/ snapshot_quotes(Main)
  \/ lock_editor(Main)
  \/ read_line(Main, PolicyLines)
  \/ read_fails(Main)
  \/ read_panics(Main)
  \/ convert_line(Main)
  \/ return(Main)

Spec == Init /\ [][Next]_vars

-----------------------------------------------------------------------------
(* The locks: every thread calls operations at once.  Thread Main calls a  *)
(* single-value and two multi-value operations, the other threads call     *)
(* ask; all of them call set_consumable_quotes.                            *)

\* The line "\" 1", whose tokens depend on the quote mode.
QuotedLine == << Quote, Space, "1" >>
ConcLines == { <<"1">>, <<"x">>, QuotedLine }
ConcOps(t) == IF t = Main THEN {"ask_until", "ask_many", "ask_many_until"} ELSE {"ask"}

ConcNext ==
  \E t \in Threads :
    \/ call_set_consumable_quotes(t)
    \/ call_ask(t, ConcOps(t), {"bool"}, {Whitespace})
    \/ lock_quotes(t)
    \/ store_quotes(t)
    \/ snapshot_quotes(t)
    \/ lock_editor(t)
    \/ read_line(t, ConcLines)
    \/ read_fails(t)
    \/ read_panics(t)
    \/ convert_line(t)
    \/ return(t)

SpecConc == Init /\ [][ConcNext]_vars

\* The same threads when the mutex is granted to every thread that keeps
\* asking for it and a thread that holds the PARSE_QUOTES guard runs on.
FairConc ==
  /\ SpecConc
  /\ \A t \in Threads :
       /\ SF_vars(lock_quotes(t))
       /\ WF_vars(store_quotes(t))
       /\ WF_vars(snapshot_quotes(t))


-----------------------------------------------------------------------------
(* Properties of the tokenizer, checked under SpecTok.                     *)

\* Thread t has returned from a call of o.
Done(t, o) == pc[t] = "returned" /\ op[t] = o

TrimKinds == {"SequenceTrim", "SequenceTrimStart", "SequenceTrimEnd"}
SeqKinds == TrimKinds \cup {"Sequence"}

\* The string the tokenizer of thread t was given.
tokenized(t) == preprocess(buffer[t], parse_quotes[t])

\* The elements of a sequence.
Range_(f) == { f[n] : n \in 1..Len(f) }

ends_with(s, seq) ==
  Len(seq) <= Len(s) /\ SubSeq(s, Len(s) - Len(seq) + 1, Len(s)) = seq

\* Whether part occurs in s as a contiguous piece.
contains(s, part) == \E k \in 1..(Len(s) + 1) : starts_with(s, k, part)

\* The segments of Sequence(seq), each trimmed as the variant kind trims.
trimmed_split(s, seq, kind) ==
  LET segs == split(s, seq) IN [n \in 1..Len(segs) |-> trim_by(kind, segs[n])]

\* C2: under SequenceTrim, SequenceTrimStart and SequenceTrimEnd, for any
\* non-empty seq (multi-byte characters included), the scan resumes right
\* after each match, so the tokens returned are the segments Sequence(seq)
\* finds between successive non-overlapping occurrences of seq, trimmed.
C2_SameSegmentsAsSequence ==
  (Done(Main, "ask_many") /\ sep[Main].kind \in TrimKinds)
    => ret[Main].val =
         restore(pop_empty(trimmed_split(tokenized(Main), sep[Main].seq, sep[Main].kind)))

\* The contents of the quoted regions of line: the text between an
\* odd-numbered double quote and the next double quote; cur is the region
\* being read when open.
RECURSIVE quoted_regions(_, _, _)
quoted_regions(line, open, cur) ==
  IF line = <<>> THEN <<>>
  ELSE IF Head(line) = Quote
       THEN (IF open THEN << cur >> ELSE <<>>) \o quoted_regions(Tail(line), ~open, <<>>)
       ELSE quoted_regions(Tail(line), open, IF open THEN Append(cur, Head(line)) ELSE cur)

\* A quoted region as it reads in a token: a space for each whitespace.
spaced(region) ==
  [n \in 1..Len(region) |-> IF is_whitespace(region[n]) THEN Space ELSE region[n]]

\* Every non-empty quoted region of line lies within one of tokens.
regions_unsplit(line, tokens) ==
  \A r \in { spaced(q) : q \in { x \in Range_(quoted_regions(line, FALSE, <<>>)) : x # <<>> } } :
    \E n \in 1..Len(tokens) : contains(tokens[n], r)

\* Whether seq is made of whitespace characters only.
blank(seq) == \A n \in 1..Len(seq) : is_whitespace(seq[n])

\* C3 as claimed: with QuoteMode on, for every Separator variant and every
\* line, each quoted region lies whole within one returned token.
C3_RegionsUnsplitAnySeparator ==
  (Done(Main, "ask_many") /\ parse_quotes[Main])
    => regions_unsplit(buffer[Main], ret[Main].val)

\* C3 as amended: with QuoteMode on, under Separator::Whitespace and under a
\* sequence separator whose seq is whitespace only, each quoted region lies
\* whole within one returned token.
C3_RegionsUnsplitByWhitespace ==
  (Done(Main, "ask_many") /\ parse_quotes[Main] /\ blank(sep[Main].seq))
    => regions_unsplit(buffer[Main], ret[Main].val)

\* C3 witness: a call with QuoteMode on under Whitespace returned a line
\* that has a quoted region with whitespace and text in it.
C3_Witness ==
  /\ Done(Main, "ask_many") /\ parse_quotes[Main] /\ sep[Main] = Whitespace
  /\ \E q \in Range_(quoted_regions(buffer[Main], FALSE, <<>>)) :
       (\E n \in 1..Len(q) : is_whitespace(q[n])) /\ (\E n \in 1..Len(q) : q[n] = "a")


\* s without its last n characters.
drop_last(s, n) == SubSeq(s, 1, Len(s) - n)

\* The returned tokens do not end with an empty token.
no_empty_last(tokens) == tokens = <<>> \/ tokens[Len(tokens)] # <<>>

\* s ends with exactly one occurrence of seq after a value: the text before
\* that occurrence is not blank and does not end, trailing whitespace aside,
\* with seq.
one_trailing(s, seq) ==
  /\ ends_with(s, seq)
  /\ trim(drop_last(s, Len(seq))) # <<>>
  /\ ~ends_with(trim_end(drop_last(s, Len(seq))), seq)

\* C5 as claimed: for every separator and every line that ends with one or
\* more occurrences of the separator, the returned tokens do not end with an
\* empty token.
C5_NoTrailingEmptyAnyCount ==
  (Done(Main, "ask_many") /\ sep[Main].kind \in SeqKinds
     /\ ends_with(tokenized(Main), sep[Main].seq))
    => no_empty_last(ret[Main].val)

\* C5 as amended: for every sequence separator and every line that ends with
\* exactly one occurrence of seq after a value, there are returned tokens
\* and they do not end with an empty token.
C5_NoTrailingEmptyOnce ==
  (Done(Main, "ask_many") /\ sep[Main].kind \in SeqKinds
     /\ one_trailing(tokenized(Main), sep[Main].seq))
    => /\ ret[Main].val # <<>>
       /\ no_empty_last(ret[Main].val)

\* C5 witness: a line that ends with one separator after a value was
\* tokenized under a sequence separator.
C5_Witness ==
  /\ Done(Main, "ask_many") /\ sep[Main] = SequenceTrim(<<Comma>>)
  /\ buffer[Main] = <<"a", Comma, "a", Comma>>
  /\ ret[Main].val = << <<"a">>, <<"a">> >>

\* C6: after set_consumable_quotes(true), ask_many::<String> with
\* Sequence(",") on the line test, "test test" returns ["test", "test test"].
C6_DocExampleQuotesOn ==
  (Done(Main, "ask_many") /\ parse_quotes[Main] /\ PARSE_QUOTES
     /\ sep[Main] = Sequence(<<Comma>>) /\ buffer[Main] = DocLine)
    => ret[Main] = [tag |-> "Ok",
                    val |-> << <<"t", "e", "s", "t">>,
                               <<"t", "e", "s", "t", " ", "t", "e", "s", "t">> >>]

\* C7: after set_consumable_quotes(false), ask_many::<String> with
\* Sequence(",") on the line test, "test test" returns the three tokens
\* ["test", "\"test", "test\""].
C7_DocExampleQuotesOff ==
  (Done(Main, "ask_many") /\ ~parse_quotes[Main] /\ ~PARSE_QUOTES
     /\ sep[Main] = Sequence(<<Comma>>) /\ buffer[Main] = DocLine)
    => ret[Main] = [tag |-> "Ok",
                    val |-> << <<"t", "e", "s", "t">>,
                               <<"\"", "t", "e", "s", "t">>,
                               <<"t", "e", "s", "t", "\"">> >>]

\* The tokens a quote-aware split on whitespace yields: a double quote opens
\* or closes a region and is dropped, whitespace outside a region ends the
\* token, whitespace inside one is a space of the token.
RECURSIVE quoted_split(_, _, _)
quoted_split(line, open, cur) ==
  IF line = <<>> THEN (IF cur = <<>> THEN <<>> ELSE << cur >>)
  ELSE IF Head(line) = Quote THEN quoted_split(Tail(line), ~open, cur)
  ELSE IF is_whitespace(Head(line))
       THEN IF open THEN quoted_split(Tail(line), open, Append(cur, Space))
            ELSE (IF cur = <<>> THEN <<>> ELSE << cur >>)
                   \o quoted_split(Tail(line), open, <<>>)
  ELSE quoted_split(Tail(line), open, Append(cur, Head(line)))

\* C8: under Separator::Whitespace with QuoteMode on, whitespace inside a
\* quoted region never splits a token, every double quote is removed and each
\* quoted whitespace character is a single space of its token, so that
\* a "b c d" e f yields a, b c d, e, f; with QuoteMode off that line yields
\* the six tokens a, "b, c, d", e, f.  (The quote-aware split is compared on
\* the lines in which the operator did not type the text of the sentinel.)
C8_WhitespaceQuotes ==
  (Done(Main, "ask_many") /\ sep[Main] = Whitespace)
    => /\ (parse_quotes[Main] /\ ~contains(buffer[Main], WHITESPACE_REPR))
            => ret[Main].val = quoted_split(buffer[Main], FALSE, <<>>)
       /\ (parse_quotes[Main] /\ buffer[Main] = EscapingLine)
            => ret[Main].val = << <<"a">>, <<"b", " ", "c", " ", "d">>, <<"e">>, <<"f">> >>
       /\ (~parse_quotes[Main] /\ buffer[Main] = EscapingLine)
            => ret[Main].val =
                 << <<"a">>, <<"\"", "b">>, <<"c">>, <<"d", "\"">>, <<"e">>, <<"f">> >>

\* C8 witness: the line of examples/escaping.rs was tokenized with QuoteMode
\* on and came back as four tokens.
C8_Witness ==
  /\ Done(Main, "ask_many") /\ sep[Main] = Whitespace /\ parse_quotes[Main]
  /\ buffer[Main] = EscapingLine
  /\ Len(ret[Main].val) = 4


-----------------------------------------------------------------------------
(* Properties of the acquisition policies, checked under Spec.             *)

\* The tokens of the line thread t holds.
line_tokens(t) == many_main(buffer[t], parse_quotes[t], sep[t]).tokens

\* ret is the conversions, in order, of the tokens s, which all convert.
conversions_of(T, s, vals) ==
  /\ Len(vals) = Len(s)
  /\ \A n \in 1..Len(s) : convert(T, s[n]).ok /\ vals[n] = convert(T, s[n]).val

\* C1: ask_many_until returns the conversions, in order, of the tokens of
\* exactly one line, the first line read in the call whose tokens all
\* convert; nothing of an earlier line is in the result and no line is read
\* after that one.
C1_FirstValidLineOnly ==
  op[Main] = "ask_many_until"
    => /\ stop_at[Main] # 0 => nreads[Main] = stop_at[Main]
       /\ pc[Main] = "returned"
            => /\ stop_at[Main] = nreads[Main]
               /\ ret[Main].tag = "Value"
               /\ conversions_of(target[Main], line_tokens(Main), ret[Main].val)

\* C1 witness: ask_many_until::<bool> returned two values from the second
\* line it read.
C1_Witness ==
  /\ Done(Main, "ask_many_until") /\ target[Main] = "bool"
  /\ nreads[Main] = 2
  /\ Len(ret[Main].val) = 2

\* The position of the first of the tokens s that fails to convert.
first_failing(T, s) ==
  CHOOSE n \in 1..Len(s) :
    ~convert(T, s[n]).ok /\ \A m \in 1..(n - 1) : convert(T, s[m]).ok

\* What ask_many is to return for the tokens s.
strict_result(T, s, r) ==
  IF \E n \in 1..Len(s) : ~convert(T, s[n]).ok
  THEN r = [tag |-> "Err", origin |-> s[first_failing(T, s)], target |-> T]
  ELSE r.tag = "Ok" /\ conversions_of(T, s, r.val)

\* C9: ask_many reads exactly one line and never prompts again; when a token
\* fails to convert it returns the error of the first failing token (its
\* text and the name of the target type) and no values, otherwise one
\* converted value per token in token order.
C9_StrictFirstError ==
  op[Main] = "ask_many"
    => /\ nreads[Main] <= 1
       /\ pc[Main] = "returned"
            => /\ nreads[Main] = 1
               /\ strict_result(target[Main], line_tokens(Main), ret[Main])

\* C9 witness: ask_many::<bool> returned the error of the first of two
\* different tokens which both fail.
C9_Witness ==
  /\ Done(Main, "ask_many") /\ target[Main] = "bool"
  /\ ret[Main].tag = "Err"
  /\ Len(line_tokens(Main)) = 2
  /\ ~convert("bool", line_tokens(Main)[2]).ok
  /\ line_tokens(Main)[1] # line_tokens(Main)[2]
  /\ ret[Main].origin = line_tokens(Main)[1]

-----------------------------------------------------------------------------
(* Properties of the locks, checked under SpecConc.                        *)

\* The threads of a multi-value call that hold a snapshot of the quote mode.
HasSnapshot(t) ==
  op[t] \in MultiOps /\ pc[t] \in {"lock_editor", "readline", "have_line", "returned"}

\* What the call of thread t returns when its line is tokenized under mode.
returns_with(t, mode) ==
  body(op[t], target[t], buffer[t], many_main(buffer[t], mode, sep[t]).tokens, <<>>)

\* C4 as claimed: a multi-value call uses the quote mode it found at its
\* start for every line it reads, the lines of a retry loop included.
C4_OneSnapshotPerCall ==
  \A t \in Threads : HasSnapshot(t) => parse_quotes[t] = first_quotes[t]

\* C4 as amended: a multi-value call takes a snapshot of the quote mode
\* before each line it reads and tokenizes that line with it, whatever is
\* set while it waits for the line; what is set meanwhile is seen by the
\* next line read, in this call or the next.
C4_OneSnapshotPerLine ==
  \A t \in Threads :
    /\ HasSnapshot(t) => parse_quotes[t] = line_quotes[t]
    /\ (pc[t] = "returned" /\ op[t] \in MultiOps)
         => ret[t] = returns_with(t, line_quotes[t]).ret

\* C4 witness: ask_many_until returned from its second line, tokenized under
\* a mode set after the call began, which the mode at its start would have
\* rejected.
C4_Witness ==
  /\ Done(Main, "ask_many_until")
  /\ nreads[Main] = 2
  /\ line_quotes[Main] # first_quotes[Main]
  /\ returns_with(Main, first_quotes[Main]).pc # "returned"

\* C10: at most one thread at a time is inside the line-reading step of
\* get_str, on the editor path and on the stdin path, and that thread holds
\* the EDITOR mutex.
C10_ReadsExclusive ==
  \A t1, t2 \in Threads :
    pc[t1] = "readline" => (editor_lock = t1 /\ (pc[t2] = "readline" => t2 = t1))

\* C10 witness: one thread reads a line while another waits for the mutex.
C10_Witness ==
  \E t1, t2 \in Threads : pc[t1] = "readline" /\ pc[t2] = "lock_editor"

-----------------------------------------------------------------------------
(* Further properties of the tokenizer, checked under SpecTok.             *)

\* The number of maximal runs of non-whitespace characters of s: the
\* positions where a run begins.
runs(s) ==
  Cardinality({ k \in 1..Len(s) :
                  ~is_whitespace(s[k]) /\ (k = 1 \/ is_whitespace(s[k - 1])) })

\* C11: under Separator::Whitespace no returned token is empty, and there
\* are as many tokens as the line handed to the tokenizer has maximal
\* whitespace-delimited runs (none for an empty or all-whitespace line).
C11_WhitespaceRuns ==
  (Done(Main, "ask_many") /\ sep[Main] = Whitespace)
    => /\ \A n \in 1..Len(ret[Main].val) : ret[Main].val[n] # <<>>
       /\ Len(ret[Main].val) = runs(tokenized(Main))
       /\ (\A k \in 1..Len(tokenized(Main)) : is_whitespace(tokenized(Main)[k]))
            => ret[Main].val = <<>>

\* C11 witness: a line of two runs with two whitespace characters between
\* them was tokenized on whitespace into two tokens.
C11_Witness ==
  /\ Done(Main, "ask_many") /\ sep[Main] = Whitespace /\ ~parse_quotes[Main]
  /\ buffer[Main] = << "a", Space, Space, "a" >>
  /\ Len(ret[Main].val) = 2

-----------------------------------------------------------------------------
(* Further properties of the acquisition policies, checked under Spec.     *)

\* The outcome ask_many_opt_lazy is to report for one token.
outcome_of(T, x) ==
  IF convert(T, x).ok THEN [tag |-> "Some", val |-> convert(T, x).val]
  ELSE [tag |-> "None"]

\* C12: ask_many_opt_lazy reads exactly one line and always returns a
\* sequence, as long as the token list, whose element at each position is the
\* converted value of the token at that position when it converts and the
\* absent marker otherwise, whatever the other tokens do.
C12_LazyPerToken ==
  op[Main] = "ask_many_opt_lazy"
    => /\ nreads[Main] <= 1
       /\ pc[Main] = "returned"
            => /\ nreads[Main] = 1
               /\ ret[Main].tag = "Value"
               /\ Len(ret[Main].val) = Len(line_tokens(Main))
               /\ \A n \in 1..Len(line_tokens(Main)) :
                     ret[Main].val[n] = outcome_of(target[Main], line_tokens(Main)[n])

\* C12 witness: ask_many_opt_lazy::<bool> returned the absent marker for a
\* first token that fails and the value of the second token.
C12_Witness ==
  /\ Done(Main, "ask_many_opt_lazy") /\ target[Main] = "bool"
  /\ ret[Main].val = << [tag |-> "None"], [tag |-> "Some", val |-> TRUE] >>

\* C13: ask_many_opt returns "no value" exactly when the line it stops at
\* has no token, every line read before it having at least one token and a
\* token that fails; otherwise it returns the values of the first line read
\* whose tokens all convert.  It reads no line after the one it stops at.
C13_OptShortCircuit ==
  op[Main] = "ask_many_opt"
    => /\ stop_at[Main] # 0 => nreads[Main] = stop_at[Main]
       /\ pc[Main] = "returned"
            => /\ stop_at[Main] = nreads[Main]
               /\ ret[Main].tag = "None" <=> Len(line_tokens(Main)) = 0
               /\ ret[Main].tag # "None"
                    => /\ ret[Main].tag = "Some"
                       /\ conversions_of(target[Main], line_tokens(Main), ret[Main].val)

\* C13 witness: ask_many_opt::<u8> read a line with a failing token, then
\* an empty line, and returned "no value".
C13_Witness ==
  /\ Done(Main, "ask_many_opt") /\ target[Main] = "u8"
  /\ nreads[Main] = 2
  /\ buffer[Main] = <<>>
  /\ ret[Main] = [tag |-> "None"]

\* C14: ask_opt returns "no value" at the first empty line it reads, for
\* every target type (String included) and without converting that line;
\* until then it asks again after every line that fails to convert, and it
\* returns the value of the first non-empty line that converts.
C14_OptStopsAtEmptyLine ==
  op[Main] = "ask_opt"
    => /\ stop_at[Main] # 0 => nreads[Main] = stop_at[Main]
       /\ (pc[Main] \in {"lock_editor", "readline"} /\ nreads[Main] > 0)
            => stop_at[Main] = 0
       /\ pc[Main] = "returned"
            => /\ stop_at[Main] = nreads[Main]
               /\ IF buffer[Main] = <<>>
                  THEN ret[Main] = [tag |-> "None"]
                  ELSE /\ convert(target[Main], buffer[Main]).ok
                       /\ ret[Main] = [tag |-> "Some",
                                       val |-> convert(target[Main], buffer[Main]).val]

\* C14 witness: ask_opt::<String> returned "no value" for an empty line.
C14_Witness ==
  /\ Done(Main, "ask_opt") /\ target[Main] = "String"
  /\ buffer[Main] = <<>>
  /\ ret[Main] = [tag |-> "None"]

\* The call of ask_until by thread Main holds a line that converts.
holds_convertible ==
  /\ op[Main] = "ask_until" /\ pc[Main] = "have_line"
  /\ convert(target[Main], buffer[Main]).ok

\* What holds of ask_until in every state: it returns a value only, the
\* conversion of the last line it read, every line read before that one
\* having failed to convert, and it reads no line after one that converts.
ask_until_safe ==
  op[Main] = "ask_until"
    => /\ stop_at[Main] # 0 => nreads[Main] = stop_at[Main]
       /\ pc[Main] = "returned"
            => /\ ret[Main].tag = "Value"
               /\ stop_at[Main] = nreads[Main]
               /\ convert(target[Main], buffer[Main]).ok
               /\ ret[Main].val = convert(target[Main], buffer[Main]).val

\* C15: ask_until never surfaces a conversion failure: it returns only with
\* a value, which is the conversion of the last line it read, every earlier
\* line of the call having failed to convert; and when a line that converts
\* has been supplied, the step the call takes with it is the return of its
\* value, no other line being read.
C15_RetryUntilValid ==
  /\ []ask_until_safe
  /\ [][holds_convertible
          => /\ pc'[Main] = "returned"
             /\ ret'[Main] = [tag |-> "Value",
                              val |-> convert(target[Main], buffer[Main]).val]
             /\ nreads'[Main] = nreads[Main]]_vars

\* C15 witness: ask_until::<bool> returned the value of the second line it
\* read.
C15_Witness ==
  /\ Done(Main, "ask_until") /\ target[Main] = "bool"
  /\ nreads[Main] = 2
  /\ ret[Main] = [tag |-> "Value", val |-> TRUE]

-----------------------------------------------------------------------------
(* The sentinel in the tokens, checked under SpecTok.                      *)

\* The line s has no occurrence of the separator sp.
no_separator(s, sp) ==
  IF sp.kind = "Whitespace" THEN \A k \in 1..Len(s) : ~is_whitespace(s[k])
  ELSE ~contains(s, sp.seq)

\* C16: for every Separator variant, a line that is a single value with no
\* occurrence of the separator in it comes back as one token, equal to the
\* trimmed line.
C16_SingleValueUnchanged ==
  (Done(Main, "ask_many") /\ buffer[Main] # <<>> /\ no_separator(buffer[Main], sep[Main]))
    => ret[Main].val = << trim(buffer[Main]) >>

\* C17: with QuoteMode off, for every line and Separator, the returned
\* tokens are exactly what the tokenizer yields on the acquired line as it
\* is: each token is a contiguous piece of that line, no character of it
\* rewritten, inserted or removed.
C17_QuotesOffNothingRewritten ==
  (Done(Main, "ask_many") /\ ~parse_quotes[Main])
    => /\ ret[Main].val = pop_empty(raw_tokens(buffer[Main], sep[Main]).strings)
       /\ \A n \in 1..Len(ret[Main].val) : contains(buffer[Main], ret[Main].val[n])

-----------------------------------------------------------------------------
(* A line without tokens, checked under Spec.                              *)

\* The call of o by thread Main holds a line that yields no token.
holds_no_token(o) ==
  /\ op[Main] = o /\ pc[Main] = "have_line"
  /\ Len(line_tokens(Main)) = 0

\* C18: ask_many_until takes a line that yields no token (an empty line,
\* say) as valid: the step it takes with it is the return of the empty
\* sequence, without another prompt; ask_many_opt returns "no value" on
\* such a line.
C18_NoTokenLine ==
  /\ [][holds_no_token("ask_many_until")
          => /\ pc'[Main] = "returned"
             /\ ret'[Main] = [tag |-> "Value", val |-> <<>>]
             /\ nreads'[Main] = nreads[Main]]_vars
  /\ [][holds_no_token("ask_many_opt")
          => /\ pc'[Main] = "returned"
             /\ ret'[Main] = [tag |-> "None"]
             /\ nreads'[Main] = nreads[Main]]_vars

\* C18 witness: ask_many_until returned the empty sequence for the empty
\* line, the first line it read.
C18_Witness ==
  /\ Done(Main, "ask_many_until")
  /\ nreads[Main] = 1
  /\ buffer[Main] = <<>>
  /\ ret[Main] = [tag |-> "Value", val |-> <<>>]

-----------------------------------------------------------------------------
(* The indices of the scan, checked under SpecTok.                         *)

\* The scan of the line thread t holds, under the separator of its call.
line_scan(t) == raw_tokens(tokenized(t), sep[t])

\* No slice of the scan r of a line of len bytes panicked, and each was
\* taken with a start that is not after its end, its end within the line.
cuts_in_order(r, len) ==
  /\ ~r.panic
  /\ \A n \in 1..Len(r.cuts) : r.cuts[n][1] <= r.cuts[n][2] /\ r.cuts[n][2] <= len

\* C19: in the scans of SequenceTrim, SequenceTrimStart and SequenceTrimEnd,
\* for every line and non-empty seq, the split point never overtakes the
\* scan position: every slice is taken with start_index <= i, the last one
\* with start_index <= the length of the line, and none of them panics.
C19_SplitPointBehindScan ==
  /\ pc[Main] # "panicked"
  /\ (pc[Main] = "have_line" /\ sep[Main].kind \in TrimKinds)
       => cuts_in_order(line_scan(Main), str_len(tokenized(Main)))

\* C19 witness: a line of two adjacent two-character separators is scanned;
\* each split point is where the scan resumes.
C19_Witness ==
  /\ pc[Main] = "have_line" /\ sep[Main] = SequenceTrim(<< Comma, Comma >>)
  /\ buffer[Main] = << Comma, Comma, Comma, Comma >>
  /\ line_scan(Main).cuts = << << 0, 0 >>, << 2, 2 >>, << 4, 4 >> >>

-----------------------------------------------------------------------------
(* The two locks together, checked under FairConc.                         *)

\* No thread holds both mutexes; the holder of the PARSE_QUOTES mutex is in
\* the one statement that uses it, and the holder of the EDITOR mutex is
\* reading a line.
locks_apart ==
  \A t \in Threads :
    /\ ~(quotes_lock = t /\ editor_lock = t)
    /\ quotes_lock = t => pc[t] = "quotes_locked"
    /\ editor_lock = t => pc[t] = "readline"
    /\ pc[t] \in {"lock_editor", "readline"} => quotes_lock # t

\* Thread t is in set_consumable_quotes and asks for the mutex.
setting(t) == op[t] = "set_consumable_quotes" /\ pc[t] = "lock_quotes"

\* C20: the PARSE_QUOTES mutex and the EDITOR mutex are never held by one
\* thread at the same time, a multi-value call having released the first
\* before it waits for a line; so no thread waits for a mutex whose holder
\* waits in turn, and every call of set_consumable_quotes completes (as long
\* as the process runs) whatever acquisitions the other threads are blocked
\* in or retrying.
C20_LocksApart ==
  /\ []locks_apart
  /\ \A t \in Threads :
       setting(t) ~> (Done(t, "set_consumable_quotes") \/ exit_code # "running")

\* C20 witness: a call of set_consumable_quotes has completed while another
\* thread, in a multi-value call that took its snapshot before, holds the
\* EDITOR mutex and waits for its second line.
C20_Witness ==
  \E t1, t2 \in Threads :
    /\ op[t1] \in MultiOps /\ pc[t1] = "readline" /\ editor_lock = t1
    /\ nreads[t1] = 1
    /\ parse_quotes[t1] # PARSE_QUOTES
    /\ Done(t2, "set_consumable_quotes")

=============================================================================
